---- MODULE Spec2Model ----
(***************************************************************************)
(* ExampleList (app/frontend/src/components/Example/ExampleList.tsx).      *)
(*                                                                         *)
(* The component owns the module-level array EXAMPLES and, on every        *)
(* render, maps it to one <li key={i}> per entry holding an <Example>      *)
(* child that receives text, value and the onExampleClicked prop as its    *)
(* onClick.  The Example child lives in ./Example, which is not part of    *)
(* the sources at hand; its behaviour (show text, call onClick(value) on   *)
(* activation) and the host's event queue are taken from the design        *)
(* document.                                                               *)
(***************************************************************************)
EXTENDS Integers, Sequences, FiniteSets, TLC

\* ---------------------------------------------------------------- bounds
MaxRenders == 3
MaxActivations == 3
NumHandlers == 2

\* ------------------------------------------------------------- the data
\* A props object that has not been supplied yet (before the first render).
NoHandler == 0

\* The callback references a parent may supply as onExampleClicked.
Handlers == 1..NumHandlers

\* EXAMPLES with one label differing from its payload.
EXAMPLES_TextDiffers ==
    << [text  |-> "How does data classification affect user access control?",
        value |-> "How does data classification affect user access control?"],
       [text  |-> "Data Steward responsibilities",
        value |-> "What are the responsibilities of a Data Steward?"],
       [text  |-> "What steps are involved in a data quality audit?",
        value |-> "What steps are involved in a data quality audit?"] >>

\* EXAMPLES with a copy-pasted entry whose payload repeats another one's.
EXAMPLES_DuplicateValue ==
    << [text  |-> "How does data classification affect user access control?",
        value |-> "How does data classification affect user access control?"],
       [text  |-> "What are the responsibilities of a Data Steward?",
        value |-> "What are the responsibilities of a Data Steward?"],
       [text  |-> "What are the responsibilities of a Data Steward?",
        value |-> "What are the responsibilities of a Data Steward?"] >>

\* const EXAMPLES: ExampleModel[] = [ ... ]
EXAMPLES ==
    << [text  |-> "How does data classification affect user access control?",
        value |-> "How does data classification affect user access control?"],
       [text  |-> "What are the responsibilities of a Data Steward?",
        value |-> "What are the responsibilities of a Data Steward?"],
       [text  |-> "What steps are involved in a data quality audit?",
        value |-> "What steps are involved in a data quality audit?"] >>

\* ------------------------------------------------------------ the state
VARIABLES
    examples,          \* the module-level array (a mutable JS array object)
    onExampleClicked,  \* the prop of the latest render
    rendered,          \* the <li> children of the <ul> of the latest render
    renderCount,       \* how many times ExampleList has been called
    sameRerenders,     \* history: re-renders that kept the previous props
    queue,             \* host event queue: positions of activated items
    activated,         \* history: positions the user activated, in order
    calls              \* history: invocations of callbacks, in order

vars == <<examples, onExampleClicked, rendered, renderCount, sameRerenders,
          queue, activated, calls>>

\* ------------------------------------------------------- the component
\* Every child gets the payload of the first entry.
ExampleList_FirstValue(h) ==
    [i \in 1..Len(examples) |->
        [key |-> i - 1, text |-> examples[i].text,
         value |-> examples[1].value, onClick |-> h]]

\* The last entry is dropped (an off-by-one in the iteration).
ExampleList_DropLast(h) ==
    [i \in 1..(Len(examples) - 1) |->
        [key |-> i - 1, text |-> examples[i].text,
         value |-> examples[i].value, onClick |-> h]]

\* The entries are emitted in reverse order.
ExampleList_Reversed(h) ==
    [i \in 1..Len(examples) |->
        [key |-> i - 1, text |-> examples[Len(examples) + 1 - i].text,
         value |-> examples[Len(examples) + 1 - i].value, onClick |-> h]]

\* Every child gets the payload of the following entry (index off by one).
ExampleList_NextValue(h) ==
    [i \in 1..Len(examples) |->
        [key |-> i - 1, text |-> examples[i].text,
         value |-> examples[(i % Len(examples)) + 1].value, onClick |-> h]]

\* Every child gets a fresh closure around the prop instead of the prop.
ExampleList_Wrapped(h) ==
    [i \in 1..Len(examples) |->
        [key |-> i - 1, text |-> examples[i].text,
         value |-> examples[i].value, onClick |-> h + NumHandlers + i]]

\* EXAMPLES.map((x, i) => <li key={i}><Example text={x.text}
\*                          value={x.value} onClick={onExampleClicked}/></li>)
\* Array positions are 1-based here, the key keeps the 0-based index i.
ExampleList(h) ==
    [i \in 1..Len(examples) |->
        [key |-> i - 1, text |-> examples[i].text,
         value |-> examples[i].value, onClick |-> h]]

\* ------------------------------------------------- the Example child
\* The label an Example child shows.
ExampleLabel(child) == child.text

\* What activating an Example child does: onClick(value).
ExampleOnClick(child) == [handler |-> child.onClick, arg |-> child.value]

\* ---------------------------------------------------------------- Init
Init ==
    /\ examples = EXAMPLES
    /\ onExampleClicked = NoHandler
    /\ rendered = << >>
    /\ renderCount = 0
    /\ sameRerenders = 0
    /\ queue = << >>
    /\ activated = << >>
    /\ calls = << >>

\* -------------------------------------------------------------- actions
\* A render that calls the handler while building each child
\* (onClick={onExampleClicked(x.value)}).
Render_InvokesCallback(h) ==
    /\ renderCount < MaxRenders
    /\ onExampleClicked' = h
    /\ rendered' = ExampleList(h)
    /\ renderCount' = renderCount + 1
    /\ sameRerenders' = IF h = onExampleClicked THEN sameRerenders + 1
                                                ELSE sameRerenders
    /\ calls' = Append(calls, [handler |-> h, arg |-> examples[1].value])
    /\ UNCHANGED <<examples, queue, activated>>

\* A render that reverses the array in place before mapping it.
Render_MutatesExamples(h) ==
    /\ renderCount < MaxRenders
    /\ examples' = [i \in 1..Len(examples) |-> examples[Len(examples) + 1 - i]]
    /\ onExampleClicked' = h
    /\ rendered' = [i \in 1..Len(examples) |->
                      [key |-> i - 1, text |-> examples'[i].text,
                       value |-> examples'[i].value, onClick |-> h]]
    /\ renderCount' = renderCount + 1
    /\ sameRerenders' = IF h = onExampleClicked THEN sameRerenders + 1
                                                ELSE sameRerenders
    /\ UNCHANGED <<queue, activated, calls>>

\* The parent renders <ExampleList onExampleClicked={h} />: the first call
\* mounts the list, later calls re-render it (with the same or a new h).
Render(h) ==
    /\ renderCount < MaxRenders
    /\ onExampleClicked' = h
    /\ rendered' = ExampleList(h)
    /\ renderCount' = renderCount + 1
    /\ sameRerenders' = IF h = onExampleClicked THEN sameRerenders + 1
                                                ELSE sameRerenders
    /\ UNCHANGED <<examples, queue, activated, calls>>

\* The user activates the i-th rendered item; the host queues the event.
UserActivate(i) ==
    /\ renderCount > 0
    /\ i \in 1..Len(rendered)
    /\ Len(activated) < MaxActivations
    /\ queue' = Append(queue, i)
    /\ activated' = Append(activated, i)
    /\ UNCHANGED <<examples, onExampleClicked, rendered, renderCount,
                   sameRerenders, calls>>

\* The host takes the oldest queued event and runs the activated child's
\* click handling against the latest render.
Dispatch ==
    /\ queue # << >>
    /\ Head(queue) \in 1..Len(rendered)
    /\ calls' = Append(calls, ExampleOnClick(rendered[Head(queue)]))
    /\ queue' = Tail(queue)
    /\ UNCHANGED <<examples, onExampleClicked, rendered, renderCount,
                   sameRerenders, activated>>

Next ==
    \/ \E h \in Handlers : Render(h)
    \/ \E i \in 1..Len(EXAMPLES) : UserActivate(i)
    \/ Dispatch

Spec == Init /\ [][Next]_vars

\* ------------------------------------------------------------- helpers
Mounted == renderCount > 0

DataSteward == "What are the responsibilities of a Data Steward?"

\* A step in which the host delivers one queued activation.
ActivationStep == queue # << >> /\ queue' = Tail(queue)

\* A step in which ExampleList is called.
RenderStep == renderCount' # renderCount

\* ------------------------------------------------------------------ C1
\* C1: every delivered activation of item i appends exactly one invocation
\* of the supplied onExampleClicked, with EXAMPLES[i].value as argument; no
\* other step invokes anything; an activation of the second item delivers
\* "What are the responsibilities of a Data Steward?".
C1_ActivationInvokesCallbackOnce ==
    /\ [](\A k \in 1..Len(calls) :
            (k <= Len(activated) /\ activated[k] = 2)
                => calls[k].arg = DataSteward)
    /\ [][ /\ ActivationStep =>
                calls' = Append(calls,
                                [handler |-> onExampleClicked,
                                 arg |-> EXAMPLES[Head(queue)].value])
           /\ ~ActivationStep => calls' = calls ]_vars

C1_Witness ==
    /\ Len(calls) = 2
    /\ activated[1] = 2 /\ activated[2] = 3
    /\ calls[1].arg = DataSteward
    /\ calls[2].arg = EXAMPLES[3].value

\* ------------------------------------------------------------------ C2
\* C2: after every render the list holds exactly Len(EXAMPLES) = 3 items,
\* exactly one for each entry position (none dropped, none duplicated).
C2_OneItemPerEntry ==
    Mounted =>
        /\ Len(rendered) = Len(EXAMPLES)
        /\ Len(rendered) = 3
        /\ \A e \in 1..Len(EXAMPLES) :
              Cardinality({i \in DOMAIN rendered : rendered[i].key = e - 1}) = 1

C2_Witness == renderCount >= 2 /\ Len(rendered) = 3 /\ calls = << >>

\* ------------------------------------------------------------------ C3
\* C3: the i-th rendered item shows EXAMPLES[i].text, carries
\* EXAMPLES[i].value and is keyed by its (0-based) position.
C3_DisplayOrderIsDeclarationOrder ==
    Mounted =>
        \A i \in 1..Len(EXAMPLES) :
            /\ i \in DOMAIN rendered
            /\ ExampleLabel(rendered[i]) = EXAMPLES[i].text
            /\ rendered[i].value = EXAMPLES[i].value
            /\ rendered[i].key = i - 1

C3_Witness ==
    /\ Mounted
    /\ Len(rendered) = 3
    /\ rendered[1].text = "How does data classification affect user access control?"
    /\ rendered[3].text = "What steps are involved in a data quality audit?"
    /\ rendered[3].key = 2

\* ------------------------------------------------------------------ C4
\* C4: rendering never invokes the callback: invocations plus activations
\* still waiting in the host queue always equal the activations made, a
\* render step leaves the invocation history alone, and a re-render with the
\* same props leaves the rendered list as it was.
C4_RenderingNeverInvokes ==
    /\ [](Len(calls) + Len(queue) = Len(activated))
    /\ [][ RenderStep =>
             /\ calls' = calls
             /\ (Mounted /\ onExampleClicked' = onExampleClicked)
                    => rendered' = rendered ]_vars

C4_Witness ==
    /\ sameRerenders >= 1
    /\ Len(calls) >= 1
    /\ Len(calls) = Len(activated)

\* ------------------------------------------------------------------ C5
\* C5: the values received by the callback are the values of the activated
\* items in activation order: the invocation history is, position by
\* position, the value of the item activated at that position, and it is
\* complete once the host queue is drained.
C5_InvocationsInActivationOrder ==
    /\ Len(calls) <= Len(activated)
    /\ \A k \in 1..Len(calls) :
          k <= Len(activated) => calls[k].arg = EXAMPLES[activated[k]].value
    /\ queue = << >> => Len(calls) = Len(activated)

C5_Witness ==
    /\ activated = <<3, 1, 2>>
    /\ queue = <<1, 2>>
    /\ Len(calls) = 1

\* ------------------------------------------------------------------ C6
\* C6: the example set is constant and non-empty: it equals EXAMPLES in
\* every reachable state and no step changes it.
C6_ExamplesImmutable ==
    /\ [](examples = EXAMPLES /\ Len(examples) > 0)
    /\ [][examples' = examples]_vars

C6_Witness ==
    /\ renderCount >= 2
    /\ Len(calls) >= 1
    /\ queue # << >>
    /\ examples = EXAMPLES

\* ------------------------------------------------------------------ C7
\* C7: every child of a render receives its entry's text and value and the
\* very onExampleClicked reference the component received, so all children
\* of one render share one handler.
C7_SameHandlerPassedDown ==
    Mounted =>
        /\ onExampleClicked \in Handlers
        /\ \A i \in DOMAIN rendered :
              /\ rendered[i].onClick = onExampleClicked
              /\ rendered[i].text = examples[i].text
              /\ rendered[i].value = examples[i].value
        /\ \A i, j \in DOMAIN rendered : rendered[i].onClick = rendered[j].onClick

C7_Witness ==
    /\ renderCount >= 2
    /\ onExampleClicked = 2
    /\ Len(rendered) = 3
    /\ rendered[3].onClick = 2

\* ------------------------------------------------------------------ C8
\* C8: every entry has text equal to value, so the string a callback
\* receives is the label shown for the activated item.
C8_TextEqualsValue ==
    /\ \A i \in DOMAIN examples : examples[i].text = examples[i].value
    /\ \A k \in 1..Len(calls) :
          (k <= Len(activated) /\ activated[k] \in DOMAIN rendered)
              => calls[k].arg = ExampleLabel(rendered[activated[k]])

C8_Witness ==
    /\ activated = <<1, 2, 3>>
    /\ Len(calls) = 3

\* ------------------------------------------------------------------ C9
\* C9: the values of the entries are pairwise distinct, so a received value
\* identifies exactly one rendered item and activations of two different
\* items never deliver the same value.
C9_ValuesPairwiseDistinct ==
    /\ \A i, j \in DOMAIN examples :
          i # j => examples[i].value # examples[j].value
    /\ \A k \in 1..Len(calls) :
          Mounted =>
             Cardinality({i \in DOMAIN rendered :
                             rendered[i].value = calls[k].arg}) = 1
    /\ \A k, l \in 1..Len(calls) :
          (k <= Len(activated) /\ l <= Len(activated)
             /\ activated[k] # activated[l])
              => calls[k].arg # calls[l].arg

C9_Witness ==
    /\ Len(calls) >= 2
    /\ activated[1] = 3 /\ activated[2] = 2
    /\ calls[1].arg # calls[2].arg

====
